---- MODULE Spec2Model ----
(***************************************************************************)
(* The GDQ block of i3status-rust (src/blocks/gdq.rs): one refresh pass    *)
(* GDQ::update fetches the schedule page, pairs the rows of #runTable,     *)
(* joins their cells into '|'-delimited CSV lines, deserializes Records,   *)
(* builds Entries, sorts them by start_time and picks the current and the  *)
(* next entry relative to Utc::now().                                      *)
(*                                                                         *)
(* A text is a sequence of characters (one-character strings).  The seven  *)
(* column names of HEADER are kept as single symbols: no operation of the  *)
(* block looks inside a column name.  Cell texts are drawn from the        *)
(* characters of timestamps, clock durations, letters and '|'; they        *)
(* contain no '"', CR or LF (the csv reader's quoting and record           *)
(* terminators) and no blanks or fractional seconds.                       *)
(* An instant is a number of seconds since 1970-01-01T00:00:00Z, a         *)
(* Duration a number of seconds.                                           *)
(***************************************************************************)
EXTENDS Integers, Sequences, FiniteSets

(***************************************************************************)
(* Bounds of the model.                                                    *)
(***************************************************************************)
\* Longest sequence of <tr> rows of a raw document.
MaxRows == 4
\* Most (primary, secondary) pairs of a well-formed schedule document.
MaxPairs == 3
\* Utc::now() ranges over NowBase .. NowBase + MaxNow.
MaxNow == 6

(***************************************************************************)
(* Option<T>.                                                              *)
(***************************************************************************)
None == [some |-> FALSE]
Some(x) == [some |-> TRUE, v |-> x]
UnwrapOr(o, d) == IF o.some THEN o.v ELSE d

(***************************************************************************)
(* Texts.                                                                  *)
(***************************************************************************)
DigitChars == <<"0", "1", "2", "3", "4", "5", "6", "7", "8", "9">>
IsDigit(c) == \E i \in 1..10 : DigitChars[i] = c
DigitVal(c) == (CHOOSE i \in 1..10 : DigitChars[i] = c) - 1
AllDigits(s) == \A i \in 1..Len(s) : IsDigit(s[i])

RECURSIVE NumVal(_)
\* The value of a string of decimal digits.
NumVal(s) ==
    IF s = <<>> THEN 0
    ELSE 10 * NumVal(SubSeq(s, 1, Len(s) - 1)) + DigitVal(s[Len(s)])

\* The pieces of s between the occurrences of the character d (always at
\* least one piece, possibly empty), in order.
SplitOn(s, d) ==
    LET at == {i \in 1..Len(s) : s[i] = d}
        n == Cardinality(at)
        pos(k) == IF k = 0 THEN 0
                  ELSE IF k = n + 1 THEN Len(s) + 1
                  ELSE CHOOSE p \in at : Cardinality({q \in at : q < p}) = k - 1
    IN [k \in 1..(n + 1) |-> SubSeq(s, pos(k - 1) + 1, pos(k) - 1)]

RECURSIVE JoinWith(_, _)
\* [String]::join: the texts of parts with the text d between neighbours.
JoinWith(parts, d) ==
    IF parts = <<>> THEN <<>>
    ELSE IF Len(parts) = 1 THEN parts[1]
    ELSE parts[1] \o d \o JoinWith(Tail(parts), d)

(***************************************************************************)
(* chrono: DateTime::parse_from_rfc3339 and NaiveTime::parse_from_str "%T" *)
(***************************************************************************)
IsLeapYear(y) == (y % 4 = 0 /\ y % 100 # 0) \/ y % 400 = 0
DaysInMonth(y, m) ==
    IF m = 2 THEN (IF IsLeapYear(y) THEN 29 ELSE 28)
    ELSE IF m \in {4, 6, 9, 11} THEN 30 ELSE 31

RECURSIVE DaysBeforeMonth(_, _)
DaysBeforeMonth(y, m) ==
    IF m = 1 THEN 0 ELSE DaysBeforeMonth(y, m - 1) + DaysInMonth(y, m - 1)

\* Days from 1970-01-01 to y-01-01 (y >= 1970).
DaysBeforeYear(y) ==
    365 * (y - 1970) + ((y - 1969) \div 4) - ((y - 1901) \div 100)
        + ((y - 1601) \div 400)

\* The offset of an RFC3339 timestamp in seconds east of UTC: "Z", "z" or
\* a sign and hh:mm.
ParseOffset(s) ==
    IF s = <<"Z">> \/ s = <<"z">> THEN Some(0)
    ELSE IF /\ Len(s) = 6
            /\ s[1] \in {"+", "-"}
            /\ s[4] = ":"
            /\ AllDigits(<<s[2], s[3], s[5], s[6]>>)
            /\ NumVal(<<s[5], s[6]>>) <= 59
         THEN LET secs == 3600 * NumVal(<<s[2], s[3]>>) + 60 * NumVal(<<s[5], s[6]>>)
              IN Some(IF s[1] = "-" THEN 0 - secs ELSE secs)
         ELSE None

\* DateTime::parse_from_rfc3339(s) followed by the conversion to
\* DateTime<Utc>: YYYY-MM-DDThh:mm:ss and an offset, every number of fixed
\* width; Some(instant) or None for Err(ParseError).
ParseFromRfc3339(s) ==
    IF /\ Len(s) >= 20
       /\ AllDigits(SubSeq(s, 1, 4)) /\ s[5] = "-"
       /\ AllDigits(SubSeq(s, 6, 7)) /\ s[8] = "-"
       /\ AllDigits(SubSeq(s, 9, 10)) /\ s[11] \in {"T", "t"}
       /\ AllDigits(SubSeq(s, 12, 13)) /\ s[14] = ":"
       /\ AllDigits(SubSeq(s, 15, 16)) /\ s[17] = ":"
       /\ AllDigits(SubSeq(s, 18, 19))
    THEN LET y == NumVal(SubSeq(s, 1, 4))
             mo == NumVal(SubSeq(s, 6, 7))
             d == NumVal(SubSeq(s, 9, 10))
             h == NumVal(SubSeq(s, 12, 13))
             mi == NumVal(SubSeq(s, 15, 16))
             sec == NumVal(SubSeq(s, 18, 19))
             off == ParseOffset(SubSeq(s, 20, Len(s)))
         IN IF /\ y >= 1970 /\ mo \in 1..12 /\ d >= 1
               /\ (mo \in 1..12 => d <= DaysInMonth(y, mo))
               /\ h <= 23 /\ mi <= 59 /\ sec <= 59
               /\ off.some
            THEN Some(86400 * (DaysBeforeYear(y) + DaysBeforeMonth(y, mo) + d - 1)
                      + 3600 * h + 60 * mi + sec - off.v)
            ELSE None
    ELSE None

\* NaiveTime::parse_from_str(s, "%T"): hours, minutes and seconds of one or
\* two digits each, separated by ':'; Some(seconds since midnight) or None.
ParseNaiveTime(s) ==
    LET p == SplitOn(s, ":")
    IN IF /\ Len(p) = 3
          /\ \A i \in 1..3 : Len(p[i]) \in {1, 2} /\ AllDigits(p[i])
          /\ NumVal(p[1]) <= 23 /\ NumVal(p[2]) <= 59 /\ NumVal(p[3]) <= 59
       THEN Some(3600 * NumVal(p[1]) + 60 * NumVal(p[2]) + NumVal(p[3]))
       ELSE None


FromHms(h, m, s) == 3600 * h + 60 * m + s

\* Faulty variant of DurationSinceMidnight: the subtraction swapped.
DurationBeforeMidnight(t) == FromHms(0, 0, 0) - t

\* t.sub(NaiveTime::from_hms(0, 0, 0)): the Duration from midnight to t.
DurationSinceMidnight(t) == t - FromHms(0, 0, 0)

(***************************************************************************)
(* Fixed texts of the block.                                               *)
(***************************************************************************)
HEADER ==
    <<"start_time", "|", "title", "|", "runner", "|", "setup_time", "|",
      "length", "|", "category", "|", "host">>
Pipe == <<"|">>
LF == "\n"
ERR == <<"E", "R", "R">>
NA == <<"N", "/", "A">>
Arrow == <<" ", "-", ">", " ">>
NoneText == <<"N", "o", "n", "e">>
\* GDQConfig::default().interval, in seconds.
DefaultInterval == 20

(***************************************************************************)
(* The state: the fields of GDQ, the value the last call of update         *)
(* returned, and the locals of the last refresh pass.                      *)
(***************************************************************************)
VARIABLES
    text,             \* self.text: the label of the widget
    update_interval,  \* self.update_interval, in seconds
    ret,              \* what the last update returned; None before any call
    outcome,          \* how the last update ended
    rows,             \* the <tr> rows matched in the document, each its cell texts
    csv_data,         \* the lines pushed by the row-pairing loop
    records,          \* the Records the csv reader deserialized
    entries,          \* the entries vector before the sort
    sorted,           \* the entries vector after sort_by
    now,              \* Utc::now(), None if the pass did not get there
    current_index,    \* position of the current entry in sorted, None if none
    current,          \* the entry removed as current
    next              \* the entry found as next

vars ==
    <<text, update_interval, ret, outcome, rows, csv_data, records, entries,
      sorted, now, current_index, current, next>>

(***************************************************************************)
(* The row-pairing loop (lines 147-171).                                   *)
(***************************************************************************)
\* One CSV line of a (first, second) pair of rows: each row's cells joined
\* by '|', then the two joined by '|'.
Delim(first, second) == JoinWith(first, Pipe) \o Pipe \o JoinWith(second, Pipe)

RECURSIVE PairRowsSliding(_)
\* Faulty variant of PairRows: every row is paired with its successor.
PairRowsSliding(list) ==
    IF Len(list) < 2 THEN <<>>
    ELSE <<Delim(list[1], list[2])>> \o PairRowsSliding(Tail(list))

RECURSIVE PairRows(_)
\* while let Some(first) = list_iter.next(): take a second row or, at the
\* end of the iterator, push nothing.
PairRows(list) ==
    IF list = <<>> THEN <<>>
    ELSE IF Len(list) = 1 THEN <<>>
    ELSE <<Delim(list[1], list[2])>> \o PairRows(SubSeq(list, 3, Len(list)))

(***************************************************************************)
(* The csv reader with delimiter '|' and a header line (lines 173-185).    *)
(***************************************************************************)
\* The fields of Record, in the order of its declaration (lines 33-41).
RecordFields ==
    <<"start_time", "title", "runner", "setup_time", "length", "category", "host">>

\* The position of the column named name in the header record, 0 if none.
ColumnOf(headers, name) ==
    IF \E i \in 1..Len(headers) : headers[i] = <<name>>
    THEN CHOOSE i \in 1..Len(headers) :
             headers[i] = <<name>> /\ \A j \in 1..(i - 1) : headers[j] # <<name>>
    ELSE 0

\* serde's deserialization of one line into a Record by column name, cols
\* the columns of the fields of Record in the header; Err (None) when the
\* line has not as many fields as the header, or a field of Record is
\* missing from the header.
DeserializeRecord(headers, cols, line) ==
    LET fields == SplitOn(line, "|")
    IN IF /\ Len(fields) = Len(headers)
          /\ \A k \in 1..Len(cols) : cols[k] > 0
       THEN Some([start_time |-> fields[cols[1]],
                  title |-> fields[cols[2]],
                  runner |-> fields[cols[3]],
                  setup_time |-> fields[cols[4]],
                  length |-> fields[cols[5]],
                  category |-> fields[cols[6]],
                  host |-> fields[cols[7]]])
       ELSE None

RECURSIVE OkValues(_)
\* The loop `match result { Ok(r) => r, Err(_) => continue }`: the values
\* of the Some results, in order.
OkValues(results) ==
    IF results = <<>> THEN <<>>
    ELSE (IF results[1].some THEN <<results[1].v>> ELSE <<>>)
             \o OkValues(Tail(results))

\* csv::Reader::deserialize over csv_data.join("\n"): the first non-empty
\* line is the header, every later non-empty line one result.
ReadRecords(data) ==
    LET csv_string == JoinWith(data, <<LF>>)
        lines == SelectSeq(SplitOn(csv_string, LF), LAMBDA l : l # <<>>)
    IN IF lines = <<>> THEN <<>>
       ELSE LET headers == SplitOn(lines[1], "|")
                cols == <<ColumnOf(headers, RecordFields[1]),
                          ColumnOf(headers, RecordFields[2]),
                          ColumnOf(headers, RecordFields[3]),
                          ColumnOf(headers, RecordFields[4]),
                          ColumnOf(headers, RecordFields[5]),
                          ColumnOf(headers, RecordFields[6]),
                          ColumnOf(headers, RecordFields[7])>>
            IN OkValues([k \in 1..(Len(lines) - 1) |->
                             DeserializeRecord(headers, cols, lines[k + 1])])

(***************************************************************************)
(* impl TryFrom<Record> for Entry (lines 43-70).                           *)
(***************************************************************************)
\* A parsed clock time as an optional Duration.
ClockDuration(s) ==
    LET t == ParseNaiveTime(s)
    IN IF t.some THEN Some(DurationSinceMidnight(t.v)) ELSE None

\* Faulty variant of TryFrom: an unparsable length fails the conversion too.
TryFromStrictLength(r) ==
    LET start_time == ParseFromRfc3339(r.start_time)
    IN IF ~start_time.some \/ ~ParseNaiveTime(r.length).some THEN None
       ELSE Some([start_time |-> start_time.v,
                  length |-> ClockDuration(r.length),
                  setup_time |-> ClockDuration(r.setup_time),
                  title |-> r.title, runner |-> r.runner,
                  category |-> r.category, host |-> r.host])

\* Entry::try_from(r): Some(entry) for Ok, None for Err.
TryFrom(r) ==
    LET start_time == ParseFromRfc3339(r.start_time)
    IN IF ~start_time.some THEN None
       ELSE Some([start_time |-> start_time.v,
                  length |-> ClockDuration(r.length),
                  setup_time |-> ClockDuration(r.setup_time),
                  title |-> r.title, runner |-> r.runner,
                  category |-> r.category, host |-> r.host])

\* The loop of lines 180-191 over the deserialized records.
BuildEntries(recs) == OkValues([k \in 1..Len(recs) |-> TryFrom(recs[k])])

(***************************************************************************)
(* Selection (lines 193-213).                                              *)
(***************************************************************************)
RECURSIVE InsertBeforeEqual(_, _)
\* Faulty variant of InsertSorted: e goes before the entries of equal
\* start_time, which makes the sort unstable.
InsertBeforeEqual(s, e) ==
    IF s = <<>> THEN <<e>>
    ELSE IF s[1].start_time < e.start_time
         THEN <<s[1]>> \o InsertBeforeEqual(Tail(s), e)
         ELSE <<e>> \o s

RECURSIVE InsertSorted(_, _)
\* e inserted into the sorted s after every entry whose start_time is not
\* greater: one step of a stable sort.
InsertSorted(s, e) ==
    IF s = <<>> THEN <<e>>
    ELSE IF s[1].start_time <= e.start_time
         THEN <<s[1]>> \o InsertSorted(Tail(s), e)
         ELSE <<e>> \o s

RECURSIVE SortBy(_)
\* entries.sort_by(|a, b| a.start_time.partial_cmp(&b.start_time).unwrap()):
\* slice::sort_by is a stable sort.
SortBy(s) ==
    IF s = <<>> THEN <<>>
    ELSE InsertSorted(SortBy(SubSeq(s, 1, Len(s) - 1)), s[Len(s)])

\* e.start_time.add(e.length.unwrap_or(Duration::seconds(0)))
WindowEnd(e) == e.start_time + UnwrapOr(e.length, 0)

\* Faulty variant of Position: the last entry whose window end is after t.
PositionLast(s, t) ==
    IF \E i \in 1..Len(s) : WindowEnd(s[i]) > t
    THEN Some(CHOOSE i \in 1..Len(s) :
                  /\ WindowEnd(s[i]) > t
                  /\ \A j \in (i + 1)..Len(s) : ~(WindowEnd(s[j]) > t))
    ELSE None

\* Faulty variant of Position: >= in place of the strict comparison.
PositionGe(s, t) ==
    IF \E i \in 1..Len(s) : WindowEnd(s[i]) >= t
    THEN Some(CHOOSE i \in 1..Len(s) :
                  /\ WindowEnd(s[i]) >= t
                  /\ \A j \in 1..(i - 1) : ~(WindowEnd(s[j]) >= t))
    ELSE None

\* entries.iter().position(|e| window end .gt(&now)): the first index (from
\* 1 here) whose window end is strictly after t.
Position(s, t) ==
    IF \E i \in 1..Len(s) : WindowEnd(s[i]) > t
    THEN Some(CHOOSE i \in 1..Len(s) :
                  /\ WindowEnd(s[i]) > t
                  /\ \A j \in 1..(i - 1) : ~(WindowEnd(s[j]) > t))
    ELSE None

\* Faulty variant of Remove: the i-th element is left in.
KeepAll(s, i) == s

\* Vec::remove(i): s without its i-th element.
Remove(s, i) == SubSeq(s, 1, i - 1) \o SubSeq(s, i + 1, Len(s))

\* entries.iter().find(|e| e.start_time.gt(&now))
Find(s, t) ==
    IF \E i \in 1..Len(s) : s[i].start_time > t
    THEN Some(s[CHOOSE i \in 1..Len(s) :
                    /\ s[i].start_time > t
                    /\ \A j \in 1..(i - 1) : ~(s[j].start_time > t)])
    ELSE None

\* format!("{} -> {}", current.title, next title or "None")
Label(cur, nxt) ==
    cur.title \o Arrow \o (IF nxt.some THEN nxt.v.title ELSE NoneText)


(***************************************************************************)
(* GDQ::update (lines 121-216), one action per way the pass can end.       *)
(***************************************************************************)
\* The locals of a pass that returned before the document was queried.
NoDocument ==
    /\ rows' = <<>> /\ csv_data' = <<>> /\ records' = <<>>
    /\ entries' = <<>> /\ sorted' = <<>>
    /\ now' = None /\ current_index' = None /\ current' = None /\ next' = None

\* The scheduler may call update: the block is new, or the interval the last
\* call returned has been taken up.
Due == outcome \in {"new", "waiting"}

\* Faulty variant of UpdateDecodeFailure: the label is left as it was.
UpdateDecodeFailureKeepsLabel ==
    /\ Due
    /\ ret' = Some(update_interval)
    /\ outcome' = "decode_failure"
    /\ NoDocument
    /\ UNCHANGED <<text, update_interval>>

\* ureq::get(..).call() is Err (lines 122-128).
UpdateFetchFailure ==
    /\ Due
    /\ text' = ERR
    /\ ret' = Some(update_interval)
    /\ outcome' = "fetch_failure"
    /\ NoDocument
    /\ UNCHANGED update_interval

\* r.into_string() is Err (lines 130-136).
UpdateDecodeFailure ==
    /\ Due
    /\ text' = ERR
    /\ ret' = Some(update_interval)
    /\ outcome' = "decode_failure"
    /\ NoDocument
    /\ UNCHANGED update_interval

\* visdom::Vis::load is Err (lines 138-144).
UpdateParseFailure ==
    /\ Due
    /\ text' = ERR
    /\ ret' = Some(update_interval)
    /\ outcome' = "parse_failure"
    /\ NoDocument
    /\ UNCHANGED update_interval

\* The rest of update once the document is loaded, list its
\* "#runTable tbody tr" rows and t the value of Utc::now() (lines 145-215).
UpdateLoaded(list, t) ==
    \E data \in {<<HEADER>> \o PairRows(list)} :
    \E recs \in {ReadRecords(data)} :
    \E built \in {BuildEntries(recs)} :
    \E srt \in {SortBy(built)} :
    \E idx \in {Position(srt, t)} :
       /\ rows' = list
       /\ csv_data' = data
       /\ records' = recs
       /\ entries' = built
       /\ sorted' = srt
       /\ now' = Some(t)
       /\ current_index' = idx
       /\ IF idx.some
          THEN \E nxt \in {Find(Remove(srt, idx.v), t)} :
                  /\ current' = Some(srt[idx.v])
                  /\ next' = nxt
                  /\ text' = Label(srt[idx.v], nxt)
                  /\ outcome' = "selected"
          ELSE /\ current' = None
               /\ next' = None
               /\ text' = ERR
               /\ outcome' = "no_current_event"
       /\ ret' = Some(update_interval)
       /\ UNCHANGED update_interval

\* The fetch, the decoding and the parse succeed: the document holds one of
\* docs, and Utc::now() returns one of instants.
UpdateDocument(docs, instants) ==
    /\ Due
    /\ \E list \in docs, t \in instants : UpdateLoaded(list, t)

\* update has returned Ok(Some(interval)): its locals are gone, the label
\* stays, and the scheduler waits out the interval before the next call.
Reschedule ==
    /\ outcome \notin {"new", "waiting"}
    /\ outcome' = "waiting"
    /\ NoDocument
    /\ UNCHANGED <<text, update_interval, ret>>

(***************************************************************************)
(* Inputs.                                                                 *)
(***************************************************************************)
TwoDigits(n) == <<DigitChars[(n \div 10) + 1], DigitChars[(n % 10) + 1]>>
\* hh:mm:ss
Clock(h, m, s) == TwoDigits(h) \o <<":">> \o TwoDigits(m) \o <<":">> \o TwoDigits(s)
\* h:mm:ss, the hour written with one digit
ShortClock(h, m, s) == <<DigitChars[h + 1]>> \o <<":">> \o TwoDigits(m) \o <<":">> \o TwoDigits(s)
ScheduleDay == <<"2", "0", "2", "2", "-", "0", "1", "-", "0", "9", "T">>
Zulu == <<"Z">>
PlusOneHour == <<"+", "0", "1", ":", "0", "0">>

\* Utc::now() is drawn from NowBase + NowStep * (0..MaxNow).
NowBase == ParseFromRfc3339(ScheduleDay \o Clock(0, 0, 0) \o Zulu).v
NowStep == 60 * 10
Nows == {NowBase + NowStep * k : k \in 0..MaxNow}

\* Configured intervals: the default and one other.
Intervals == {DefaultInterval, DefaultInterval + 40}

Runner == <<"r">>
Title == <<"A">>
Category == <<"c">>
Host == <<"h">>
SetupText == ShortClock(0, 10, 0)
\* The k-th pair of a schedule has a runner of its own.
RunnerChars == <<"s", "t", "u", "v", "w", "x", "y", "z">>

\* Start times 00:10, 00:20 and 00:30 UTC, the last written with an offset.
StartTexts ==
    {ScheduleDay \o Clock(0, 10, 0) \o Zulu,
     ScheduleDay \o Clock(0, 20, 0) \o Zulu,
     ScheduleDay \o Clock(1, 30, 0) \o PlusOneHour}
\* Lengths: zero, thirty minutes, and an empty cell.
LengthTexts == {Clock(0, 0, 0), Clock(0, 30, 0), <<>>}

\* A well-formed schedule of n pairs: the k-th pair has the start time and
\* length chosen by f.
ScheduleRows(n, f) ==
    [i \in 1..(2 * n) |->
        IF i % 2 = 1
        THEN <<f[(i + 1) \div 2][1], Title, <<RunnerChars[(i + 1) \div 2]>>, SetupText>>
        ELSE <<f[i \div 2][2], Category, Host>>]

ScheduleDocs ==
    UNION {{ScheduleRows(n, f) : f \in [1..n -> StartTexts \X LengthTexts]} :
               n \in 0..MaxPairs}

\* Rows of raw documents: well-formed and malformed primary and secondary
\* rows.
PrimaryOk == <<ScheduleDay \o Clock(0, 10, 0) \o Zulu, Title, Runner, SetupText>>
PrimaryNoSetup == <<ScheduleDay \o Clock(0, 20, 0) \o Zulu, Title, Runner, <<>>>>
PrimaryNoOffset == <<ScheduleDay \o Clock(0, 10, 0), Title, Runner, SetupText>>
PrimaryPipe == <<ScheduleDay \o Clock(0, 10, 0) \o Zulu, <<"A", "|", "B">>, Runner, SetupText>>
PrimaryShortPipe == <<ScheduleDay \o Clock(0, 20, 0) \o Zulu, <<"A", "|", "B">>, SetupText>>
SecondaryOk == <<Clock(0, 30, 0), Category, Host>>
SecondaryNoLength == <<<<"T", "B", "D">>, Category, Host>>
SecondaryShort == <<Clock(0, 30, 0), Category>>
RowVocabulary ==
    {PrimaryOk, PrimaryNoSetup, PrimaryNoOffset, PrimaryPipe, PrimaryShortPipe,
     SecondaryOk, SecondaryNoLength, SecondaryShort}

RawDocs == UNION {[1..n -> RowVocabulary] : n \in 0..MaxRows}
\* Raw documents are read at the first and at the last instant of Nows.
RawNows == {NowBase, NowBase + NowStep * MaxNow}

(***************************************************************************)
(* Specifications.                                                         *)
(***************************************************************************)
\* ConfigBlock::new (lines 102-117): the label "N/A", the configured interval.
NewBlock(interval) ==
    /\ text = NA
    /\ update_interval = interval
    /\ ret = None
    /\ outcome = "new"
    /\ rows = <<>> /\ csv_data = <<>> /\ records = <<>>
    /\ entries = <<>> /\ sorted = <<>>
    /\ now = None /\ current_index = None /\ current = None /\ next = None

Init == \E interval \in Intervals : NewBlock(interval)

\* Refresh passes over raw documents.
Next ==
    \/ UpdateFetchFailure
    \/ UpdateDecodeFailure
    \/ UpdateParseFailure
    \/ UpdateDocument(RawDocs, RawNows)
    \/ Reschedule

Spec == Init /\ [][Next]_vars

InitSchedule == NewBlock(DefaultInterval)

\* Refresh passes over well-formed schedules.
NextSchedule ==
    \/ UpdateFetchFailure
    \/ UpdateDecodeFailure
    \/ UpdateParseFailure
    \/ UpdateDocument(ScheduleDocs, Nows)
    \/ Reschedule

SpecSchedule == InitSchedule /\ [][NextSchedule]_vars


(***************************************************************************)
(* Properties.  The definitions below speak of the entries vector in       *)
(* document order (entries), and state the stable chronological order by   *)
(* indices into it.                                                        *)
(***************************************************************************)
\* The last update got as far as the selection.
Reached == outcome \in {"selected", "no_current_event"}
Selected == outcome = "selected"
Failures == {"fetch_failure", "decode_failure", "parse_failure"}
\* The end of the window of e: start_time + length, length zero if absent.
EndOf(e) == IF e.length.some THEN e.start_time + e.length.v ELSE e.start_time
Ended(i) == EndOf(entries[i]) <= now.v
Covers(e) == e.start_time <= now.v /\ now.v < EndOf(e)
ZeroWidth(e) == ~e.length.some \/ e.length.v = 0
Indices == 1..Len(entries)
\* entries[i] comes before entries[j] in ascending start_time order, equal
\* start times in input order.
Before(i, j) ==
    \/ entries[i].start_time < entries[j].start_time
    \/ entries[i].start_time = entries[j].start_time /\ i < j
\* The place of entries[i] in that order.
Rank(i) == 1 + Cardinality({j \in Indices : Before(j, i)})
\* entries[i] is the entry selected as current.
IsCurrent(i) == Selected /\ current = Some(entries[i]) /\ current_index = Some(Rank(i))

\* C1: the sorted vector is the entries in ascending start_time order with
\* equal start times in input order, and the current entry is the first of
\* that order whose window end is strictly after now: every entry before it
\* has window end <= now.
C1_CurrentIsFirstUnended ==
    Reached =>
        /\ Len(sorted) = Len(entries)
        /\ \A i \in Indices : sorted[Rank(i)] = entries[i]
        /\ Selected =>
              \E i \in Indices :
                  /\ IsCurrent(i)
                  /\ EndOf(entries[i]) > now.v
                  /\ \A j \in Indices : Before(j, i) => Ended(j)

\* Two entries of equal start_time, both unended, the first in input order
\* current, after an entry that came later in the document was skipped.
C1_Witness ==
    /\ Selected
    /\ \E i, j, k \in Indices :
          /\ i < j /\ i < k
          /\ entries[i].start_time = entries[j].start_time
          /\ ~Ended(j)
          /\ Before(k, i) /\ Ended(k)
          /\ IsCurrent(i)

\* C2: with a current entry selected, next is the first entry in sorted
\* order, the current one left out, whose start_time is strictly after now,
\* and never the current entry; when no other entry starts after now, next
\* is absent and the label ends in "None".  A single entry of 30 minutes
\* seen 10 minutes after its start is current with next absent.
C2_NextIsFirstUpcoming ==
    /\ Selected =>
          \E i \in Indices :
              /\ IsCurrent(i)
              /\ LET upcoming == {j \in Indices \ {i} : entries[j].start_time > now.v}
                 IN IF upcoming = {}
                    THEN /\ next = None
                         /\ text = entries[i].title \o Arrow \o NoneText
                    ELSE \E j \in upcoming :
                            /\ next = Some(entries[j])
                            /\ \A k \in upcoming \ {j} : Before(j, k)
                            /\ next # current
                            /\ text = entries[i].title \o Arrow \o entries[j].title
    /\ (/\ Reached
        /\ Len(entries) = 1
        /\ entries[1].length = Some(30 * 60)
        /\ now.v = entries[1].start_time + 10 * 60)
       => /\ current = Some(entries[1])
          /\ next = None
          /\ text # ERR

\* The current entry has not started yet, and two other entries start after
\* now: next is the earlier of them.
C2_Witness ==
    /\ Selected
    /\ current.v.start_time > now.v
    /\ next.some
    /\ \E j, k \in Indices :
          /\ next = Some(entries[j])
          /\ entries[k] # current.v
          /\ entries[k].start_time > entries[j].start_time
          /\ k < j

\* C3: the selection ends in NoCurrentEvent, the label "ERR" and the
\* interval returned, exactly when no entry has a window end strictly after
\* now (the empty list included); otherwise a current entry is selected and
\* the label is not "ERR".
C3_NoCurrentEventIffAllEnded ==
    Reached =>
        /\ (outcome = "no_current_event") <=> (\A i \in Indices : Ended(i))
        /\ outcome = "no_current_event" =>
              text = ERR /\ ret = Some(update_interval) /\ current = None
        /\ Selected => text # ERR /\ current.some

\* NoCurrentEvent with several entries, one of them ending at now exactly.
C3_Witness ==
    /\ outcome = "no_current_event"
    /\ Len(entries) >= 2
    /\ \E i \in Indices : EndOf(entries[i]) = now.v /\ ~ZeroWidth(entries[i])

\* C8: when some entry's window [start_time, start_time + length) covers
\* now, a current entry is selected, its window covers now, and no entry
\* covering now starts strictly earlier.
C8_EarliestCoveringIsCurrent ==
    (Reached /\ \E i \in Indices : Covers(entries[i])) =>
        /\ Selected
        /\ Covers(current.v)
        /\ \A j \in Indices :
              Covers(entries[j]) => ~(entries[j].start_time < current.v.start_time)

\* Two overlapping windows cover now; the later-starting one comes first in
\* the document and the earlier-starting one is current.
C8_Witness ==
    /\ Selected
    /\ \E i, j \in Indices :
          /\ i < j
          /\ Covers(entries[i]) /\ Covers(entries[j])
          /\ entries[j].start_time < entries[i].start_time
          /\ IsCurrent(j)

\* C9 as stated: an entry of zero or absent length is the current entry at
\* the instant now = start_time when no earlier-sorted entry is unended, and
\* is never current once now is after its start_time.
C9_CurrentAtStartInstant ==
    Reached =>
        \A i \in Indices :
            ZeroWidth(entries[i]) =>
                /\ (/\ now.v = entries[i].start_time
                    /\ \A j \in Indices : Before(j, i) => Ended(j))
                   => IsCurrent(i)
                /\ now.v > entries[i].start_time => ~IsCurrent(i)

\* C9 amended: an entry of zero or absent length is the current entry while
\* now is strictly before its start_time and no earlier-sorted entry is
\* unended; at now = start_time and at every later instant it is never
\* current.
C9_CurrentOnlyBeforeStart ==
    Reached =>
        \A i \in Indices :
            ZeroWidth(entries[i]) =>
                /\ (/\ now.v < entries[i].start_time
                    /\ \A j \in Indices : Before(j, i) => Ended(j))
                   => IsCurrent(i)
                /\ now.v >= entries[i].start_time => ~IsCurrent(i)

\* now is the start_time of an entry of zero or absent length that no
\* unended entry precedes; the scan skipped it and a later entry is current.
C9_Witness ==
    /\ Selected
    /\ \E i \in Indices :
          /\ ZeroWidth(entries[i])
          /\ now.v = entries[i].start_time
          /\ \A j \in Indices : Before(j, i) => Ended(j)
          /\ current.v.start_time > entries[i].start_time

\* C10: when both current and next are selected, next comes after current
\* in the sorted vector, so next.start_time >= current.start_time and
\* next.start_time > now; and every parsed length is a non-negative
\* duration.
C10_NextSortsAfterCurrent ==
    /\ Reached => \A i \in Indices :
                      entries[i].length.some => entries[i].length.v >= 0
    /\ (Selected /\ next.some) =>
          /\ next.v.start_time >= current.v.start_time
          /\ next.v.start_time > now.v
          /\ \E k \in 1..Len(sorted) : k > current_index.v /\ sorted[k] = next.v
          /\ \A k \in 1..Len(sorted) : k < current_index.v => sorted[k] # next.v

\* Current and next are selected after an ended entry was skipped; current
\* has a length of 30 minutes and next starts at the same instant.
C10_Witness ==
    /\ Selected
    /\ next.some
    /\ current_index.v > 1
    /\ current.v.length = Some(30 * 60)
    /\ next.v.start_time = current.v.start_time


\* C4: every call of update leaves update_interval as it was and returns
\* Ok(Some(update_interval)), on the success paths and on every failure
\* path; after a fetch, decode or HTML-parse failure the label is "ERR".
C4_EveryPassReturnsInterval ==
    [][/\ update_interval' = update_interval
       /\ Due => /\ outcome' \in Failures \cup {"selected", "no_current_event"}
                 /\ ret' = Some(update_interval)
                 /\ text' # <<>>
                 /\ outcome' \in Failures => text' = ERR]_vars

\* An HTML-parse failure under a configured interval other than the default:
\* the label is "ERR" and the configured interval is returned.
C4_Witness ==
    /\ outcome = "parse_failure"
    /\ text = ERR
    /\ update_interval # DefaultInterval
    /\ ret = Some(update_interval)

\* C5: after the header, csv_data holds one line per two rows, in document
\* order: len/2 lines for an even number len of rows, (len-1)/2 for an odd
\* one, the k-th line made of rows 2k-1 and 2k (counting from 1); the last
\* row of an odd-length document is dropped.
C5_RowsPairedInOrder ==
    Reached =>
        LET len == Len(rows)
            pairs == IF len % 2 = 0 THEN len \div 2 ELSE (len - 1) \div 2
        IN /\ Len(csv_data) = 1 + pairs
           /\ csv_data[1] = HEADER
           /\ \A k \in 1..pairs :
                  csv_data[k + 1] =
                      JoinWith(rows[2 * k - 1], Pipe) \o Pipe \o JoinWith(rows[2 * k], Pipe)

\* Three rows, the third unlike the others: one line, made of the first two.
C5_Witness ==
    /\ Reached
    /\ Len(rows) = 3
    /\ Len(csv_data) = 2
    /\ rows[3] # rows[1] /\ rows[3] # rows[2] /\ rows[1] # rows[2]

\* The records whose start_time parses, in order.
WithStartTime ==
    SelectSeq(records, LAMBDA r : ParseFromRfc3339(r.start_time).some)

\* C6: the entries are the records whose start_time parses as RFC3339, one
\* entry each and in order, whether or not length and setup_time parse as
\* HH:MM:SS; length is absent exactly when the record's length does not
\* parse, setup_time exactly when its setup_time does not, and the text
\* fields are passed through.
C6_OnlyStartTimeDiscards ==
    Reached =>
        /\ Len(entries) = Len(WithStartTime)
        /\ \A m \in 1..Len(WithStartTime) :
              LET r == WithStartTime[m]
                  e == entries[m]
              IN /\ e.start_time = ParseFromRfc3339(r.start_time).v
                 /\ e.length = ParseNaiveTime(r.length)
                 /\ e.setup_time = ParseNaiveTime(r.setup_time)
                 /\ e.title = r.title /\ e.runner = r.runner
                 /\ e.category = r.category /\ e.host = r.host

\* A record without a start time that parses, beside a record that yields
\* an entry without length and with its setup_time, and none the other way.
C6_Witness ==
    /\ Reached
    /\ Len(records) = 2
    /\ ~ParseFromRfc3339(records[1].start_time).some
    /\ ParseNaiveTime(records[1].length).some
    /\ Len(entries) = 1
    /\ ~entries[1].length.some
    /\ entries[1].setup_time.some

\* The cells of the k-th pair of rows.
PairCells(k) == rows[2 * k - 1] \o rows[2 * k]
\* The pairs of seven cells whose first cell parses as a timestamp.
WellFormedPairs ==
    SelectSeq([k \in 1..(Len(rows) \div 2) |-> PairCells(k)],
              LAMBDA c : Len(c) = 7 /\ ParseFromRfc3339(c[1]).some)
\* The entry of a well-formed pair: its cells in the order of HEADER.
EntryOfCells(c) ==
    [start_time |-> ParseFromRfc3339(c[1]).v,
     title |-> c[2], runner |-> c[3],
     setup_time |-> ParseNaiveTime(c[4]),
     length |-> ParseNaiveTime(c[5]),
     category |-> c[6], host |-> c[7]]
EntriesAreWellFormedPairs ==
    /\ Len(entries) = Len(WellFormedPairs)
    /\ \A m \in 1..Len(WellFormedPairs) : entries[m] = EntryOfCells(WellFormedPairs[m])

\* C7: the entries are exactly the pairs of seven cells whose first cell is
\* a valid timestamp, each with its cells assigned to the fields in the
\* order of HEADER, whatever the cell texts: a pair of another cell count
\* yields no entry and takes no other pair's entry away.
C7_OnlyMalformedPairsDiscarded == Reached => EntriesAreWellFormedPairs

\* The same for documents none of whose cells contains the delimiter.
C7_HoldsWithoutDelimiterInCells ==
    (/\ Reached
     /\ \A i \in 1..Len(rows) : \A c \in 1..Len(rows[i]) :
            \A p \in 1..Len(rows[i][c]) : rows[i][c][p] # "|")
    => EntriesAreWellFormedPairs

====
